---- MODULE Spec2Model ----
(***************************************************************************)
(* The activity scheduling and simulation engine of the Linux activity     *)
(* agent: ActivityUtils (schedule evaluation, catalog lookup),             *)
(* ActivityAgent (session state machine, scheduler loop) and main (stop    *)
(* signal handling), of unified_agent.py and modified_unified_agent.py.    *)
(* The two files share the engine; modified_unified_agent.py adds the      *)
(* custom_commands overrides of the configuration.                         *)
(* Time is in whole seconds since midnight of the day the run starts.      *)
(***************************************************************************)
EXTENDS Integers, Sequences, FiniteSets, TLC

VARIABLES
    config,             \* ActivityAgent.config (read-only input)
    now,                \* the wall clock: datetime.now() / time.time()
    current_app,        \* ActivityAgent.current_app
    app_start_time,     \* ActivityAgent.app_start_time
    session_duration,   \* ActivityAgent.session_duration
    pc,                 \* position of the control flow in main / run
    current_time,       \* run: the instant sampled at the top of the iteration
    next_app,           \* run: the result of get_next_app
    activity,           \* simulate_activity: the chosen activity script
    step,               \* simulate_activity: index of the next command
    log,                \* executor: commands issued since the top of the iteration
    outcome,            \* executor: outcome of the last command
    opens_since_close,  \* executor: open commands received since the last close
    failed_step,        \* executor: first command of the script that failed, or 0
    intr,               \* main: what the exception that ended run found
    events,             \* log sink: the records emitted by the last step
    last_state,         \* run: the schedule state found by the evaluation before
    looked_up,          \* get_application_commands: the profile a call returned
    installed_apps,     \* ApplicationInstaller.installed_apps
    euid,               \* os.geteuid() of the process
    todo,               \* install_all_dependencies: the applications still to install
    app_key,            \* install_app: its argument
    returned,           \* install_app / install_all_dependencies: the value returned
    caller,             \* install_app: who calls it
    program,            \* the file whose main is executed
    argv                \* sys.argv[1:]

vars == <<config, now, current_app, app_start_time, session_duration, pc,
          current_time, next_app, activity, step, log, outcome,
          opens_since_close, failed_step, intr, events, last_state, looked_up,
          installed_apps, euid, todo, app_key, returned, caller, program, argv>>

installer == <<installed_apps, euid, todo, app_key, returned, caller>>
invocation == <<program, argv>>

-----------------------------------------------------------------------------
(* Values *)

None == "None"
NoTime == -1
NoActivity == [description |-> None, commands |-> <<>>]

SecondsPerDay == 24 * 3600

Range(s) == {s[i] : i \in DOMAIN s}

\* "%H:%M" strings are kept as their two fields
HM(h, m) == [hh |-> h, mm |-> m]

\* datetime.strptime(s, '%H:%M').time(), as seconds since midnight
strptime(s) == s.hh * 3600 + s.mm * 60

\* datetime.time(): the time of day of an instant
TimeOfDay(t) == t % SecondsPerDay

\* datetime.date(): the calendar day of an instant
DateOf(t) == t \div SecondsPerDay

-----------------------------------------------------------------------------
(* Activity catalog *)

EmptyProfile == <<>>

Script(d, c) == [description |-> d, commands |-> c]

app_configs ==
    [x \in {"Visual Studio Code", "Slack", "Google Chrome", "Docker Desktop"} |->
       CASE x = "Visual Studio Code" ->
              [open |-> "code", close |-> "pkill -f code",
               activities |-> <<
                 Script("Opening a file",
                        <<"xdotool key ctrl+o", "sleep 2",
                          "xdotool type 'main.py'", "xdotool key Return">>),
                 Script("Typing code",
                        <<"xdotool type 'print(\"Hello World\")'",
                          "xdotool key Return", "xdotool key ctrl+s">>),
                 Script("Search in files",
                        <<"xdotool key ctrl+shift+f", "sleep 1",
                          "xdotool type 'function'", "xdotool key Return">>) >>]
         [] x = "Slack" ->
              [open |-> "slack", close |-> "pkill -f slack",
               activities |-> <<
                 Script("Checking messages",
                        <<"xdotool key ctrl+k", "sleep 1",
                          "xdotool type 'general'", "xdotool key Return">>),
                 Script("Typing message",
                        <<"xdotool type 'Good morning team!'",
                          "xdotool key Return">>) >>]
         [] x = "Google Chrome" ->
              [open |-> "google-chrome", close |-> "pkill -f chrome",
               activities |-> <<
                 Script("Browsing documentation",
                        <<"xdotool key ctrl+l",
                          "xdotool type 'https://docs.python.org'",
                          "xdotool key Return", "sleep 5",
                          "xdotool key ctrl+f", "xdotool type 'function'">>),
                 Script("Opening new tab",
                        <<"xdotool key ctrl+t",
                          "xdotool type 'https://stackoverflow.com'",
                          "xdotool key Return">>),
                 Script("Scrolling page",
                        <<"xdotool key Page_Down", "sleep 2",
                          "xdotool key Page_Down", "sleep 2",
                          "xdotool key Page_Up">>) >>]
         [] x = "Docker Desktop" ->
              [open |-> "docker", close |-> "pkill -f docker",
               activities |-> <<
                 Script("Checking containers",
                        <<"docker ps", "sleep 2", "docker images">>),
                 Script("Building image",
                        <<"docker build -t test-app .", "sleep 10">>) >>]]

\* variant: the built-in profiles are looked up before the custom ones
get_application_commands_BuiltinFirst(app_name, custom_commands) ==
    IF app_name \in DOMAIN app_configs
    THEN app_configs[app_name]
    ELSE IF DOMAIN custom_commands # {} /\ app_name \in DOMAIN custom_commands
         THEN custom_commands[app_name]
         ELSE EmptyProfile

\* variant: a name the catalog does not know gets a generic profile
get_application_commands_GenericFallback(app_name, custom_commands) ==
    IF DOMAIN custom_commands # {} /\ app_name \in DOMAIN custom_commands
    THEN custom_commands[app_name]
    ELSE IF app_name \in DOMAIN app_configs
         THEN app_configs[app_name]
         ELSE [open |-> "xdg-open", close |-> "pkill",
               activities |-> <<Script("Pressing a key", <<"xdotool key Return">>)>>]

\* ActivityUtils.get_application_commands(app_name, custom_commands)
get_application_commands(app_name, custom_commands) ==
    IF DOMAIN custom_commands # {} /\ app_name \in DOMAIN custom_commands
    THEN custom_commands[app_name]
    ELSE IF app_name \in DOMAIN app_configs
         THEN app_configs[app_name]
         ELSE EmptyProfile

\* `commands and key in commands`
HasKey(commands, key) == DOMAIN commands # {} /\ key \in DOMAIN commands

-----------------------------------------------------------------------------
(* Schedule evaluator *)

\* variant: the end of the work window excluded
is_work_time_EndExclusive(t, work_schedule) ==
    LET current_time_only == TimeOfDay(t)
        start_time == strptime(work_schedule.start_time)
        end_time == strptime(work_schedule.end_time)
    IN  start_time <= current_time_only /\ current_time_only < end_time

\* ActivityUtils.is_work_time
is_work_time(t, work_schedule) ==
    LET current_time_only == TimeOfDay(t)
        start_time == strptime(work_schedule.start_time)
        end_time == strptime(work_schedule.end_time)
    IN  start_time <= current_time_only /\ current_time_only <= end_time

\* break_end of one break: (combine(date, break_start) + timedelta(minutes)).time()
break_end(t, break_info) ==
    LET break_start_dt == DateOf(t) * SecondsPerDay + strptime(break_info.start)
        break_end_dt == break_start_dt + break_info.duration_minutes * 60
    IN  TimeOfDay(break_end_dt)

\* variant: the end of the break excluded
in_break_EndExclusive(t, break_info) ==
    /\ strptime(break_info.start) <= TimeOfDay(t)
    /\ TimeOfDay(t) < break_end(t, break_info)

\* variant: a break whose end falls on the next day lasts over midnight
in_break_WrapAware(t, break_info) ==
    IF break_end(t, break_info) < strptime(break_info.start)
    THEN \/ strptime(break_info.start) <= TimeOfDay(t)
         \/ TimeOfDay(t) <= break_end(t, break_info)
    ELSE /\ strptime(break_info.start) <= TimeOfDay(t)
         /\ TimeOfDay(t) <= break_end(t, break_info)

\* is_break_time: `break_start <= current_time_only <= break_end`
in_break(t, break_info) ==
    /\ strptime(break_info.start) <= TimeOfDay(t)
    /\ TimeOfDay(t) <= break_end(t, break_info)

\* ActivityUtils.is_break_time
is_break_time(t, work_schedule) ==
    \E i \in DOMAIN work_schedule.breaks : in_break(t, work_schedule.breaks[i])

\* variant: the break check made before the work-time check
classify_BreakFirst(t, work_schedule) ==
    IF is_break_time(t, work_schedule) THEN "ON_BREAK"
    ELSE IF ~is_work_time(t, work_schedule) THEN "OFF_HOURS"
    ELSE "WORKING"

\* The schedule evaluation as run combines the two checks
classify(t, work_schedule) ==
    IF ~is_work_time(t, work_schedule) THEN "OFF_HOURS"
    ELSE IF is_break_time(t, work_schedule) THEN "ON_BREAK"
    ELSE "WORKING"

-----------------------------------------------------------------------------
(* Configurations the agent is constructed with *)

\* USER_CONFIG / DEFAULT_USER_CONFIG: 09:00-18:00 with lunch at 13:00 for 60 min
DefaultSchedule ==
    [start_time |-> HM(9, 0), end_time |-> HM(18, 0),
     breaks |-> <<[start |-> HM(13, 0), duration_minutes |-> 60]>>]

NoBreakSchedule ==
    [start_time |-> HM(9, 0), end_time |-> HM(18, 0), breaks |-> <<>>]

MorningShift ==
    [start_time |-> HM(9, 0), end_time |-> HM(13, 0), breaks |-> <<>>]

AfternoonShift ==
    [start_time |-> HM(13, 0), end_time |-> HM(18, 0),
     breaks |-> <<[start |-> HM(15, 30), duration_minutes |-> 15]>>]

NoCustom == <<>>

\* the custom_commands of the sample configuration, and one profile that
\* gives an open command and activities but no close command
TerminalProfile ==
    [open |-> "gnome-terminal", close |-> "pkill -f gnome-terminal",
     activities |-> <<Script("Checking system status",
                             <<"htop", "sleep 5", "q">>)>>]

NotesProfile ==
    [open |-> "gedit",
     activities |-> <<Script("Typing a note", <<"xdotool type 'todo'">>)>>]

\* a custom profile whose list of activities is empty
KioskProfile ==
    [open |-> "xterm", close |-> "pkill -f xterm", activities |-> <<>>]

KioskCustom == [x \in {"Kiosk"} |-> KioskProfile]

SampleCustom == [x \in {"Terminal"} |-> TerminalProfile]

LooseCustom ==
    [x \in {"Terminal", "Notes"} |->
        IF x = "Terminal" THEN TerminalProfile ELSE NotesProfile]

Config(ws, apps, custom) ==
    [work_schedule |-> ws, applications_used |-> apps, custom_commands |-> custom]

\* USER_CONFIG of unified_agent.py
USER_CONFIG ==
    Config(DefaultSchedule,
           <<"Visual Studio Code", "Google Chrome", "Slack", "Docker Desktop">>,
           NoCustom)

\* configurations of unified_agent.py: the built-in catalog only
UnifiedConfigs ==
    { Config(DefaultSchedule, <<"Slack", "Docker Desktop">>, NoCustom),
      Config(NoBreakSchedule, <<"Slack", "Docker Desktop">>, NoCustom),
      Config(MorningShift, <<"Slack">>, NoCustom),
      Config(AfternoonShift, <<"Firefox", "Slack">>, NoCustom),
      Config(NoBreakSchedule, <<>>, NoCustom),
      Config(NoBreakSchedule, <<"Firefox">>, NoCustom) }

\* configurations of modified_unified_agent.py with custom_commands
CustomConfigs ==
    { Config(DefaultSchedule, <<"Terminal", "Slack">>, SampleCustom),
      Config(NoBreakSchedule, <<"Notes", "Terminal">>, LooseCustom),
      Config(NoBreakSchedule, <<"Kiosk">>, KioskCustom) }

Configs == UnifiedConfigs \cup CustomConfigs

-----------------------------------------------------------------------------
(* Bounds and program constants *)

\* the run starts at 12:59:00 and is followed for MaxElapsed seconds
StartClock == 12 * 3600 + 59 * 60
MaxElapsed == 380
MaxClock == StartClock + MaxElapsed

SessionMin == 300
SessionMax == 900
PollInterval == 300
AppPauseMin == 30
AppPauseMax == 120
WarmUp == 5
StepPauseMin == 1
StepPauseMax == 3
ActivityPauseMin == 10
ActivityPauseMax == 60

\* random.randint / random.uniform: the two ends of each range
SessionDurations == {SessionMin, SessionMax}
AppPauses == {AppPauseMin, AppPauseMax}
StepPauses == {StepPauseMin, StepPauseMax}
ActivityPauses == {ActivityPauseMin, ActivityPauseMax}

\* subprocess.run: exit status 0, non-zero exit status, or an exception
Outcomes == {"ok", "failed", "raised"}

-----------------------------------------------------------------------------
(* ActivityAgent *)

NoSignal == [received |-> FALSE, app |-> None]

\* no ApplicationInstaller at work: the agent starts without --install
NoInstaller ==
    /\ installed_apps = <<>>
    /\ euid = 1000
    /\ todo = <<>>
    /\ app_key = None
    /\ returned = "none"
    /\ caller = None

\* the agent as constructed, whoever constructed it
NoMain ==
    /\ program = None
    /\ argv = <<>>

\* the module loaded and no ActivityAgent constructed yet
NoAgent ==
    /\ current_app = None
    /\ app_start_time = NoTime
    /\ session_duration = 0
    /\ current_time = 0
    /\ next_app = None
    /\ activity = NoActivity
    /\ step = 0
    /\ log = <<>>
    /\ outcome = "none"
    /\ opens_since_close = 0
    /\ failed_step = 0
    /\ intr = NoSignal
    /\ events = <<>>
    /\ last_state = "NONE"
    /\ looked_up = EmptyProfile

\* ActivityAgent.__init__, and main about to call run
Constructed ==
    /\ current_app = None
    /\ app_start_time = NoTime
    /\ session_duration \in SessionDurations
    /\ pc = "loop_top"
    /\ current_time = 0
    /\ next_app = None
    /\ activity = NoActivity
    /\ step = 0
    /\ log = <<>>
    /\ outcome = "none"
    /\ opens_since_close = 0
    /\ failed_step = 0
    /\ intr = NoSignal
    /\ events = <<>>
    /\ last_state = "NONE"
    /\ looked_up = EmptyProfile
    /\ NoInstaller
    /\ NoMain

AgentInit ==
    /\ now = StartClock
    /\ Constructed

Init ==
    /\ config \in Configs
    /\ AgentInit

InitUnified ==
    /\ config \in UnifiedConfigs
    /\ AgentInit

Commands(app_name) == get_application_commands(app_name, config.custom_commands)

\* one record of the log sink: logging.info / warning / error
Event(lvl, msg, arg) == [level |-> lvl, message |-> msg, about |-> arg]

\* run_command: the record it logs when the command has ended
ResultEvents(entries, out) ==
    IF entries = <<>> THEN <<>>
    ELSE IF out = "ok" THEN <<Event("INFO", "SUCCESS", entries[1].command)>>
    ELSE IF out = "failed"
         THEN <<Event("WARNING", "COMMAND FAILED", entries[1].command)>>
         ELSE <<Event("ERROR", "ERROR", entries[1].command)>>

Entry(k, a, c) == [kind |-> k, app |-> a, command |-> c]

\* time.sleep(d): the clock advances; the command before it has returned
Sleep(d) ==
    /\ now + d <= MaxClock
    /\ now' = now + d
    /\ outcome' = "none"
    /\ UNCHANGED <<log, opens_since_close>>

\* the close command close_application hands to run_command, if any
CloseEntries(app_name) ==
    IF HasKey(Commands(app_name), "close")
    THEN <<Entry("close", app_name, Commands(app_name).close)>>
    ELSE <<>>

\* the executor's count of open commands since the last close command,
\* after it receives the entries given
Received(entries) ==
    IF entries = <<>> THEN opens_since_close
    ELSE IF entries[1].kind = "close" THEN 0
    ELSE IF entries[1].kind = "open"
         THEN (IF opens_since_close < 2 THEN opens_since_close + 1 ELSE 2)
         ELSE opens_since_close

\* ActivityAgent.run_command for the entries given: the executor receives
\* them, and each ends with exit status 0, another exit status or an exception
run_command(entries) ==
    /\ log' = log \o entries
    /\ opens_since_close' = Received(entries)
    /\ IF entries = <<>>
       THEN outcome' = outcome
       ELSE outcome' \in Outcomes

\* variant: current_app is cleared and app_start_time is kept
close_application_KeepsStartTime(app_name) ==
    /\ run_command(CloseEntries(app_name))
    /\ current_app' = None
    /\ UNCHANGED app_start_time

\* variant: the close command is issued but the session is not cleared
close_application_KeepsSession(app_name) ==
    /\ run_command(CloseEntries(app_name))
    /\ UNCHANGED <<current_app, app_start_time>>

\* variant: the session is cleared only when the close command succeeded
close_application_OnlyOnSuccess(app_name) ==
    /\ run_command(CloseEntries(app_name))
    /\ current_app' = IF outcome' = "ok" THEN None ELSE current_app
    /\ app_start_time' = IF outcome' = "ok" THEN NoTime ELSE app_start_time

\* ActivityAgent.close_application
close_application(app_name) ==
    /\ run_command(CloseEntries(app_name))
    /\ current_app' = None
    /\ app_start_time' = NoTime

\* close_application: the records it logs, the command ending with `out`
CloseLogged(app_name, out) ==
    IF HasKey(Commands(app_name), "close")
    THEN <<Event("INFO", "Closing application", app_name)>>
            \o ResultEvents(CloseEntries(app_name), out)
    ELSE <<>>

\* the records of `if self.current_app: logging.info(why); close_application`
LogClose(why) ==
    IF current_app # None THEN why \o CloseLogged(current_app, outcome') ELSE <<>>

\* variant: no guard, and a close command whatever the application is
CloseIfOpen_AlwaysCloses ==
    /\ run_command(<<Entry("close", current_app, "pkill")>>)
    /\ current_app' = None
    /\ app_start_time' = NoTime

\* `if self.current_app: self.close_application(self.current_app)`
CloseIfOpen ==
    IF current_app # None
    THEN close_application(current_app)
    ELSE UNCHANGED <<log, outcome, opens_since_close, current_app, app_start_time>>

\* variant: the session has to be strictly older than session_duration
should_switch_app_StrictlyOlder ==
    \/ current_app = None
    \/ app_start_time = NoTime
    \/ now - app_start_time > session_duration

\* ActivityAgent.should_switch_app
should_switch_app ==
    \/ current_app = None
    \/ app_start_time = NoTime
    \/ now - app_start_time >= session_duration

\* variant: the current application is not excluded
available_apps_NoExclusion(apps, cur) == apps

\* the applications get_next_app chooses among
available_apps(apps, cur) ==
    LET others == SelectSeq(apps, LAMBDA app : app # cur)
    IN  IF others = <<>> THEN apps ELSE others

\* variant: an empty list falls back to a browser
get_next_app_DefaultsToBrowser(apps, cur) ==
    IF apps = <<>> THEN {"Google Chrome"} ELSE Range(available_apps(apps, cur))

\* ActivityAgent.get_next_app: the values random.choice may return
get_next_app(apps, cur) ==
    IF apps = <<>> THEN {None} ELSE Range(available_apps(apps, cur))

-----------------------------------------------------------------------------
(* ActivityAgent.run: one action per stretch of code between two sleeps *)

locals == <<next_app, activity, step, failed_step>>
session == <<current_app, app_start_time, session_duration>>
executor == <<log, outcome, opens_since_close>>

\* top of the loop: sample the clock and evaluate the schedule
Evaluate ==
    /\ pc = "loop_top"
    /\ current_time' = now
    /\ pc' = CASE classify(now, config.work_schedule) = "OFF_HOURS" -> "off_hours"
               [] classify(now, config.work_schedule) = "ON_BREAK" -> "on_break"
               [] OTHER -> "working"
    /\ log' = <<>>
    /\ outcome' = "none"
    /\ next_app' = None
    /\ events' = <<>>
    /\ last_state' = IF current_time = 0 THEN "NONE"
                     ELSE classify(current_time, config.work_schedule)
    /\ UNCHANGED <<invocation, installer, config, looked_up, now, session, activity, step, failed_step,
                   opens_since_close, intr>>

\* variant: the off-hours branch goes to sleep without closing
OffHours_NoClose ==
    /\ pc = "off_hours"
    /\ events' = <<Event("INFO", "Outside work hours, sleeping...", None)>>
    /\ pc' = "poll_sleep"
    /\ UNCHANGED <<invocation, installer, config, looked_up, last_state, now, session, current_time,
                   locals, executor, intr>>

\* `if not is_work_time(...)`: close the current application, then sleep
OffHours ==
    /\ pc = "off_hours"
    /\ CloseIfOpen
    /\ events' = LogClose(<<Event("INFO", "Work time ended, closing current application", None)>>)
                    \o <<Event("INFO", "Outside work hours, sleeping...", None)>>
    /\ pc' = "poll_sleep"
    /\ UNCHANGED <<invocation, installer, config, looked_up, last_state, now, session_duration, current_time, locals, intr>>

\* variant: the break branch closes the application and falls through
BreakTime_NoContinue ==
    /\ pc = "on_break"
    /\ CloseIfOpen
    /\ events' = LogClose(<<Event("INFO", "Break time, closing current application", None)>>)
    /\ pc' = "working"
    /\ UNCHANGED <<invocation, installer, config, looked_up, last_state, now, session_duration, current_time, locals, intr>>

\* `if is_break_time(...)`: close the current application, then sleep
BreakTime ==
    /\ pc = "on_break"
    /\ CloseIfOpen
    /\ events' = LogClose(<<Event("INFO", "Break time, closing current application", None)>>)
                    \o <<Event("INFO", "Break time, sleeping...", None)>>
    /\ pc' = "poll_sleep"
    /\ UNCHANGED <<invocation, installer, config, looked_up, last_state, now, session_duration, current_time, locals, intr>>

\* time.sleep(300); continue
PollSleep ==
    /\ pc = "poll_sleep"
    /\ Sleep(PollInterval)
    /\ events' = <<>>
    /\ pc' = "loop_top"
    /\ UNCHANGED <<invocation, installer, config, looked_up, last_state, session, current_time, locals, intr>>

\* `if self.should_switch_app()`: close the current application
SwitchCheck ==
    /\ pc = "working"
    /\ IF should_switch_app
       THEN /\ CloseIfOpen
            /\ events' = LogClose(<<>>)
            /\ pc' = "app_pause"
       ELSE /\ pc' = "simulate"
            /\ events' = <<>>
            /\ UNCHANGED <<log, outcome, opens_since_close, current_app,
                           app_start_time>>
    /\ UNCHANGED <<invocation, installer, config, looked_up, last_state, now, session_duration, current_time, locals, intr>>

\* time.sleep(random.randint(30, 120))
AppPause ==
    /\ pc = "app_pause"
    /\ \E d \in AppPauses : Sleep(d)
    /\ events' = <<Event("INFO", "Pausing between applications", None)>>
    /\ pc' = "open_next"
    /\ UNCHANGED <<invocation, installer, config, looked_up, last_state, session, current_time, locals, intr>>

\* open_application: the records it logs, the command ending with `out`
OpenLogged(app_name, out) ==
    <<Event("INFO", "Opening application", app_name)>>
        \o ResultEvents(<<Entry("open", app_name, Commands(app_name).open)>>, out)

\* variant: the session is set only when the open command succeeded
open_application_OnlyOnSuccess(app_name) ==
    /\ run_command(<<Entry("open", app_name, Commands(app_name).open)>>)
    /\ current_app' = IF outcome' = "ok" THEN app_name ELSE current_app
    /\ app_start_time' = IF outcome' = "ok" THEN now ELSE app_start_time

\* ActivityAgent.open_application, for an application that has an open command
open_application(app_name) ==
    /\ run_command(<<Entry("open", app_name, Commands(app_name).open)>>)
    /\ current_app' = app_name
    /\ app_start_time' = now

\* variant: the application chosen is taken out of the configured list
OpenNext_ConsumesList ==
    /\ pc = "open_next"
    /\ \E app \in get_next_app(config.applications_used, current_app) :
         /\ next_app' = app
         /\ config' = [config EXCEPT !.applications_used =
                          SelectSeq(@, LAMBDA a : a # app)]
         /\ IF app # None /\ HasKey(Commands(app), "open")
            THEN /\ open_application(app)
                 /\ events' = OpenLogged(app, outcome')
                 /\ session_duration' \in SessionDurations
                 /\ pc' = "warm_up"
            ELSE /\ pc' = "simulate"
                 /\ events' = <<>>
                 /\ UNCHANGED <<session, executor>>
    /\ UNCHANGED <<invocation, installer, looked_up, last_state, now, current_time, activity, step,
                   failed_step, intr>>

\* variant: the name chosen becomes the current application also when its
\* profile has no open command
OpenNext_RecordsUnknown ==
    /\ pc = "open_next"
    /\ \E app \in get_next_app(config.applications_used, current_app) :
         /\ next_app' = app
         /\ IF app # None /\ HasKey(Commands(app), "open")
            THEN /\ open_application(app)
                 /\ events' = OpenLogged(app, outcome')
                 /\ session_duration' \in SessionDurations
                 /\ pc' = "warm_up"
            ELSE /\ pc' = "simulate"
                 /\ events' = <<>>
                 /\ current_app' = app
                 /\ app_start_time' = IF app = None THEN NoTime ELSE now
                 /\ UNCHANGED <<session_duration, executor>>
    /\ UNCHANGED <<invocation, installer, config, looked_up, last_state, now, current_time, activity, step, failed_step, intr>>

\* next_app = self.get_next_app(); if next_app and self.open_application(next_app)
OpenNext ==
    /\ pc = "open_next"
    /\ \E app \in get_next_app(config.applications_used, current_app) :
         /\ next_app' = app
         /\ IF app # None /\ HasKey(Commands(app), "open")
            THEN /\ open_application(app)
                 /\ events' = OpenLogged(app, outcome')
                 /\ session_duration' \in SessionDurations
                 /\ pc' = "warm_up"
            ELSE /\ pc' = "simulate"
                 /\ events' = <<>>
                 /\ UNCHANGED <<session, executor>>
    /\ UNCHANGED <<invocation, installer, config, looked_up, last_state, now, current_time, activity, step, failed_step, intr>>

\* variant: the iteration that opened an application ends after the warm-up
WarmUpSleep_SkipsActivity ==
    /\ pc = "warm_up"
    /\ Sleep(WarmUp)
    /\ events' = <<>>
    /\ pc' = "activity_pause"
    /\ UNCHANGED <<invocation, installer, config, looked_up, last_state, session, current_time, locals, intr>>

\* time.sleep(5)
WarmUpSleep ==
    /\ pc = "warm_up"
    /\ Sleep(WarmUp)
    /\ events' = <<>>
    /\ pc' = "simulate"
    /\ UNCHANGED <<invocation, installer, config, looked_up, last_state, session, current_time, locals, intr>>

\* variant: the command the exception interrupted is left running
Unwound_CommandSurvives ==
    /\ current_time' = 0
    /\ next_app' = None
    /\ activity' = NoActivity
    /\ step' = 0
    /\ log' = <<>>
    /\ outcome' = outcome
    /\ failed_step' = 0
    /\ events' = <<>>

\* the exception leaves run: its frame is gone, and the executor log
\* restarts at the exception
Unwound ==
    /\ current_time' = 0
    /\ next_app' = None
    /\ activity' = NoActivity
    /\ step' = 0
    /\ log' = <<>>
    /\ outcome' = "none"
    /\ failed_step' = 0
    /\ events' = <<>>

\* variant: random.choice of an empty list gives nothing and the call returns
ChoiceRaises_NoOp ==
    /\ pc' = "activity_pause"
    /\ events' = <<>>
    /\ UNCHANGED <<activity, step, current_time, next_app, failed_step, executor, intr>>

\* random.choice(commands['activities']) of an empty list: IndexError, which
\* leaves simulate_activity and run
ChoiceRaises ==
    /\ Unwound
    /\ pc' = "faulted"
    /\ intr' = [received |-> FALSE, app |-> current_app]
    /\ UNCHANGED opens_since_close

\* variant: an activity only in the iteration that opened the application
ChooseActivity_OnlyAfterOpen ==
    /\ pc = "simulate"
    /\ IF current_app # None /\ HasKey(Commands(current_app), "activities")
          /\ \E i \in DOMAIN log : log[i].kind = "open"
       THEN IF Commands(current_app).activities = <<>>
            THEN ChoiceRaises
            ELSE /\ \E a \in Range(Commands(current_app).activities) :
                      /\ activity' = a
                      /\ step' = 1
                      /\ events' = <<Event("INFO", "Simulating activity", a.description)>>
                      /\ pc' = IF a.commands = <<>> THEN "activity_pause" ELSE "run_step"
                 /\ UNCHANGED <<current_time, next_app, failed_step, executor, intr>>
       ELSE /\ pc' = "activity_pause"
            /\ events' = <<>>
            /\ UNCHANGED <<activity, step, current_time, next_app, failed_step, executor, intr>>
    /\ UNCHANGED <<invocation, installer, config, looked_up, last_state, now, session>>

\* `if self.current_app: self.simulate_activity(...)`: choose the activity
ChooseActivity ==
    /\ pc = "simulate"
    /\ IF current_app # None /\ HasKey(Commands(current_app), "activities")
       THEN IF Commands(current_app).activities = <<>>
            THEN ChoiceRaises
            ELSE /\ \E a \in Range(Commands(current_app).activities) :
                      /\ activity' = a
                      /\ step' = 1
                      /\ events' = <<Event("INFO", "Simulating activity", a.description)>>
                      /\ pc' = IF a.commands = <<>> THEN "activity_pause" ELSE "run_step"
                 /\ UNCHANGED <<current_time, next_app, failed_step, executor, intr>>
       ELSE /\ pc' = "activity_pause"
            /\ events' = <<>>
            /\ UNCHANGED <<activity, step, current_time, next_app, failed_step, executor, intr>>
    /\ UNCHANGED <<invocation, installer, config, looked_up, last_state, now, session>>

\* simulate_activity: self.run_command(cmd)
RunStep ==
    /\ pc = "run_step"
    /\ run_command(<<Entry("step", current_app, activity.commands[step])>>)
    /\ events' = ResultEvents(<<Entry("step", current_app, activity.commands[step])>>,
                               outcome')
    /\ failed_step' = IF failed_step = 0 /\ outcome' # "ok" THEN step ELSE failed_step
    /\ pc' = "step_pause"
    /\ UNCHANGED <<invocation, installer, config, looked_up, last_state, now, session, current_time, next_app, activity, step, intr>>

\* variant: a command that failed ends the script
StepPause_StopOnFailure ==
    /\ pc = "step_pause"
    /\ \E d \in StepPauses : Sleep(d)
    /\ events' = <<>>
    /\ step' = step + 1
    /\ pc' = IF step + 1 > Len(activity.commands) \/ failed_step # 0
             THEN "activity_pause" ELSE "run_step"
    /\ UNCHANGED <<invocation, installer, config, looked_up, last_state, session, current_time, next_app, activity, failed_step, intr>>

\* simulate_activity: time.sleep(random.uniform(1, 3)), then the next command
StepPause ==
    /\ pc = "step_pause"
    /\ \E d \in StepPauses : Sleep(d)
    /\ events' = <<>>
    /\ step' = step + 1
    /\ pc' = IF step + 1 > Len(activity.commands) THEN "activity_pause" ELSE "run_step"
    /\ UNCHANGED <<invocation, installer, config, looked_up, last_state, session, current_time, next_app, activity, failed_step, intr>>

\* variant: a new session_duration at the end of every iteration
ActivityPause_Redraws ==
    /\ pc = "activity_pause"
    /\ \E d \in ActivityPauses : Sleep(d)
    /\ events' = <<>>
    /\ pc' = "loop_top"
    /\ activity' = NoActivity
    /\ step' = 0
    /\ failed_step' = 0
    /\ session_duration' \in SessionDurations
    /\ UNCHANGED <<invocation, installer, config, looked_up, last_state, current_app, app_start_time, current_time, next_app, intr>>

\* time.sleep(random.randint(10, 60)), then the next iteration
ActivityPause ==
    /\ pc = "activity_pause"
    /\ \E d \in ActivityPauses : Sleep(d)
    /\ events' = <<>>
    /\ pc' = "loop_top"
    /\ activity' = NoActivity
    /\ step' = 0
    /\ failed_step' = 0
    /\ UNCHANGED <<invocation, installer, config, looked_up, last_state, session, current_time, next_app, intr>>

-----------------------------------------------------------------------------
(* The executor never returning: subprocess.run is called without a timeout *)

\* the applications open_application can be handed at open_next and has an
\* open command for
Openable ==
    { app \in get_next_app(config.applications_used, current_app) :
        app # None /\ HasKey(Commands(app), "open") }

\* the command the next statement of run hands to run_command, if it does
NextCommand ==
    IF /\ \/ pc \in {"off_hours", "on_break"}
          \/ pc = "working" /\ should_switch_app
       /\ current_app # None
    THEN {CloseEntries(current_app)} \ {<<>>}
    ELSE IF pc = "open_next"
         THEN { <<Entry("open", app, Commands(app).open)>> : app \in Openable }
         ELSE IF pc = "run_step"
              THEN {<<Entry("step", current_app, activity.commands[step])>>}
              ELSE {}

\* the records logged before a command that does not return
AnnounceEvents(entries) ==
    IF entries[1].kind = "close"
    THEN (IF pc = "off_hours"
          THEN <<Event("INFO", "Work time ended, closing current application", None)>>
          ELSE IF pc = "on_break"
               THEN <<Event("INFO", "Break time, closing current application", None)>>
               ELSE <<>>)
         \o <<Event("INFO", "Closing application", entries[1].app)>>
    ELSE IF entries[1].kind = "open"
         THEN <<Event("INFO", "Opening application", entries[1].app)>>
         ELSE <<>>

\* run_command inside run: subprocess.run does not return
CommandHangs ==
    /\ \E entries \in NextCommand :
         /\ log' = log \o entries
         /\ opens_since_close' = Received(entries)
         /\ events' = AnnounceEvents(entries)
         /\ next_app' = IF entries[1].kind = "open" THEN entries[1].app ELSE next_app
    /\ outcome' = "hung"
    /\ pc' = "hung"
    /\ UNCHANGED <<invocation, installer, config, looked_up, last_state, now, session, current_time, activity, step,
                   failed_step, intr>>

-----------------------------------------------------------------------------
(* main: the stop signal and the fault handler *)

RunPcs == {"loop_top", "off_hours", "on_break", "poll_sleep", "working",
           "app_pause", "open_next", "warm_up", "simulate", "run_step",
           "step_pause", "activity_pause", "hung"}

\* the exception is KeyboardInterrupt
Unwind ==
    /\ pc' = "interrupted"
    /\ Unwound

\* KeyboardInterrupt raised between two statements of run, or in a sleep
KeyboardInterrupt ==
    /\ pc \in RunPcs
    /\ Unwind
    /\ intr' = [received |-> TRUE, app |-> current_app]
    /\ UNCHANGED <<invocation, installer, config, looked_up, last_state, now, session, opens_since_close>>

\* KeyboardInterrupt raised inside close_application, after run_command
\* and before current_app is cleared
InterruptInClose ==
    /\ \/ pc \in {"off_hours", "on_break"}
       \/ pc = "working" /\ should_switch_app
    /\ current_app # None
    /\ opens_since_close' = Received(CloseEntries(current_app))
    /\ Unwind
    /\ intr' = [received |-> TRUE, app |-> current_app]
    /\ UNCHANGED <<invocation, installer, config, looked_up, last_state, now, session>>

\* KeyboardInterrupt raised inside open_application, after run_command
\* and before current_app is set
InterruptInOpen ==
    /\ pc = "open_next"
    /\ \E app \in get_next_app(config.applications_used, current_app) :
         /\ app # None /\ HasKey(Commands(app), "open")
         /\ opens_since_close' =
              Received(<<Entry("open", app, Commands(app).open)>>)
    /\ Unwind
    /\ intr' = [received |-> TRUE, app |-> current_app]
    /\ UNCHANGED <<invocation, installer, config, looked_up, last_state, now, session>>

\* variant: the handler exits without closing
StopHandler_NoClose ==
    /\ pc = "interrupted"
    /\ events' = <<Event("INFO", "Agent stopped by user", None)>>
    /\ pc' = "exited"
    /\ UNCHANGED <<invocation, installer, config, looked_up, last_state, now, session, current_time, locals, executor, intr>>

\* except KeyboardInterrupt: if agent.current_app: close_application(...)
StopHandler ==
    /\ pc = "interrupted"
    /\ CloseIfOpen
    /\ events' = <<Event("INFO", "Agent stopped by user", None)>> \o LogClose(<<>>)
    /\ pc' = "exited"
    /\ UNCHANGED <<invocation, installer, config, looked_up, last_state, now, session_duration, current_time, locals, intr>>

\* an exception other than KeyboardInterrupt raised by a statement of run
\* outside run_command (which catches its own): it leaves run
Fault ==
    /\ pc \in RunPcs \ {"hung"}
    /\ Unwound
    /\ pc' = "faulted"
    /\ intr' = [received |-> FALSE, app |-> current_app]
    /\ UNCHANGED <<invocation, installer, config, looked_up, last_state, now, session, opens_since_close>>

\* variant: the handler closes the application and starts the loop again
FaultHandler_Restarts ==
    /\ pc = "faulted"
    /\ CloseIfOpen
    /\ events' = <<Event("ERROR", "Agent crashed", None)>> \o LogClose(<<>>)
    /\ pc' = "loop_top"
    /\ UNCHANGED <<invocation, installer, config, looked_up, last_state, now, session_duration, current_time, locals, intr>>

\* except Exception: logging.error; if agent.current_app: close_application(...)
FaultHandler ==
    /\ pc = "faulted"
    /\ CloseIfOpen
    /\ events' = <<Event("ERROR", "Agent crashed", None)>> \o LogClose(<<>>)
    /\ pc' = "crashed"
    /\ UNCHANGED <<invocation, installer, config, looked_up, last_state, now, session_duration, current_time, locals, intr>>

\* close_application in either handler: subprocess.run does not return
CloseHangs ==
    /\ pc \in {"interrupted", "faulted"}
    /\ current_app # None
    /\ CloseEntries(current_app) # <<>>
    /\ log' = log \o CloseEntries(current_app)
    /\ opens_since_close' = Received(CloseEntries(current_app))
    /\ outcome' = "hung"
    /\ events' = <<IF pc = "interrupted"
                   THEN Event("INFO", "Agent stopped by user", None)
                   ELSE Event("ERROR", "Agent crashed", None),
                   Event("INFO", "Closing application", current_app)>>
    /\ pc' = "hung_in_handler"
    /\ UNCHANGED <<invocation, installer, config, looked_up, last_state, now, session, current_time, locals, intr>>

-----------------------------------------------------------------------------

Next ==
    \/ Evaluate
    \/ OffHours
    \/ BreakTime
    \/ PollSleep
    \/ SwitchCheck
    \/ AppPause
    \/ OpenNext
    \/ WarmUpSleep
    \/ ChooseActivity
    \/ RunStep
    \/ StepPause
    \/ ActivityPause
    \/ KeyboardInterrupt
    \/ InterruptInClose
    \/ InterruptInOpen
    \/ StopHandler
    \/ CommandHangs
    \/ Fault
    \/ FaultHandler
    \/ CloseHangs

Spec == Init /\ [][Next]_vars

SpecUnified == InitUnified /\ [][Next]_vars

\* `while True`: the statements of the loop
Loop ==
    \/ Evaluate
    \/ OffHours
    \/ BreakTime
    \/ PollSleep
    \/ SwitchCheck
    \/ AppPause
    \/ OpenNext
    \/ WarmUpSleep
    \/ ChooseActivity
    \/ RunStep
    \/ StepPause
    \/ ActivityPause

\* the run left alone: every command returns, no signal and no fault, and
\* the process goes on to its next statement
SpecLoop == Init /\ [][Loop]_vars /\ WF_vars(Loop)

\* the same for unified_agent.py, whose profiles are the built-in ones
SpecLoopUnified == InitUnified /\ [][Loop]_vars /\ WF_vars(Loop)

\* the run with the handler of the stop signal always executed: the process
\* goes on to its next statement, whose close command returns or does not
SpecShutdown ==
    InitUnified /\ [][Next]_vars /\ WF_vars(StopHandler \/ CloseHangs)

-----------------------------------------------------------------------------
(* The schedule evaluation on its own: one evaluation of run, for schedules *)
(* and instants around the boundaries                                       *)

EvalBreakLists ==
    { <<>>,
      <<[start |-> HM(13, 0), duration_minutes |-> 60]>>,
      <<[start |-> HM(13, 0), duration_minutes |-> 0]>>,
      <<[start |-> HM(8, 0), duration_minutes |-> 120]>>,
      <<[start |-> HM(17, 30), duration_minutes |-> 60]>>,
      <<[start |-> HM(12, 30), duration_minutes |-> 45],
        [start |-> HM(15, 30), duration_minutes |-> 15]>>,
      <<[start |-> HM(23, 30), duration_minutes |-> 60]>>,
      <<[start |-> HM(23, 0), duration_minutes |-> 60]>>,
      <<[start |-> HM(13, 0), duration_minutes |-> 1500]>> }

EvalSchedules ==
    { [start_time |-> st, end_time |-> en, breaks |-> b] :
        st \in {HM(9, 0), HM(13, 0)},
        en \in {HM(18, 0), HM(13, 0), HM(9, 0), HM(23, 59)},
        b \in EvalBreakLists }

EvalMinutes ==
    { HM(0, 0), HM(0, 30), HM(8, 0), HM(8, 30), HM(8, 59), HM(9, 0), HM(10, 0),
      HM(12, 59), HM(13, 0), HM(13, 15), HM(14, 0), HM(14, 1), HM(15, 45),
      HM(17, 59), HM(18, 0), HM(18, 30), HM(23, 30), HM(23, 59) }

EvalDays == 0 .. 1

\* instants on a whole minute, and 1, 30, 59 seconds into it
EvalTimes ==
    { day * SecondsPerDay + strptime(m) + sec :
        day \in EvalDays, m \in EvalMinutes, sec \in {0, 1, 30, 59} }

InitEval ==
    /\ config \in { Config(ws, <<>>, NoCustom) : ws \in EvalSchedules }
    /\ now \in EvalTimes
    /\ Constructed

SpecEval == InitEval /\ [][Evaluate]_vars

\* the evaluation made: the branch run has taken
Evaluated == pc \in {"off_hours", "on_break", "working"}

start_of(ws) == strptime(ws.start_time)
end_of(ws) == strptime(ws.end_time)

\* the break window [start, start + duration] on the time line, no wrap
BreakContains(b, tod) ==
    /\ strptime(b.start) <= tod
    /\ tod <= strptime(b.start) + b.duration_minutes * 60

SomeBreakContains(ws, tod) ==
    \E i \in DOMAIN ws.breaks : BreakContains(ws.breaks[i], tod)

\* C4: with start_time <= end_time, an instant inside [start_time, end_time]
\* that no break window contains is evaluated as WORKING.
C4_WorkingInsideWindowOutsideBreaks ==
    LET ws == config.work_schedule
        tod == TimeOfDay(current_time)
    IN  ( /\ Evaluated
          /\ start_of(ws) <= end_of(ws)
          /\ start_of(ws) <= tod /\ tod <= end_of(ws)
          /\ ~SomeBreakContains(ws, tod) )
        => pc = "working"

\* C4 witness: the evaluation at exactly end_time of a schedule with breaks
C4_Witness ==
    /\ pc = "working"
    /\ config.work_schedule.breaks # <<>>
    /\ TimeOfDay(current_time) = end_of(config.work_schedule)
    /\ start_of(config.work_schedule) < end_of(config.work_schedule)

\* C5: an instant strictly before start_time or strictly after end_time is
\* evaluated as OFF_HOURS whatever the breaks are; with start_time <= end_time
\* the instants start_time and end_time themselves are not OFF_HOURS.
C5_OffHoursOutsideWindow ==
    LET ws == config.work_schedule
        tod == TimeOfDay(current_time)
    IN  Evaluated =>
          /\ (tod < start_of(ws) \/ tod > end_of(ws)) => pc = "off_hours"
          /\ ( /\ start_of(ws) <= end_of(ws)
               /\ tod \in {start_of(ws), end_of(ws)} ) => pc # "off_hours"

\* C5 witness: an instant before start_time that lies inside a break window
C5_Witness ==
    /\ pc = "off_hours"
    /\ TimeOfDay(current_time) < start_of(config.work_schedule)
    /\ SomeBreakContains(config.work_schedule, TimeOfDay(current_time))

SameDayBreaks(ws) ==
    \A i \in DOMAIN ws.breaks :
        strptime(ws.breaks[i].start) + ws.breaks[i].duration_minutes * 60
            < SecondsPerDay

\* C6: on a whole minute inside the work window, with every break ending on
\* the day it starts, the evaluation is ON_BREAK exactly when some break has
\* start <= now <= start + duration_minutes; for 09:00-18:00 with the break
\* 13:00/60 it is WORKING at 12:59, ON_BREAK at 13:00 and 14:00, WORKING at 14:01.
C6_OnBreakExactlyInsideBreak ==
    LET ws == config.work_schedule
        tod == TimeOfDay(current_time)
    IN  /\ ( /\ Evaluated
             /\ tod % 60 = 0
             /\ start_of(ws) <= tod /\ tod <= end_of(ws)
             /\ SameDayBreaks(ws) )
           => (pc = "on_break" <=> SomeBreakContains(ws, tod))
        /\ (Evaluated /\ ws = DefaultSchedule) =>
             /\ tod = strptime(HM(12, 59)) => pc = "working"
             /\ tod = strptime(HM(13, 0)) => pc = "on_break"
             /\ tod = strptime(HM(14, 0)) => pc = "on_break"
             /\ tod = strptime(HM(14, 1)) => pc = "working"

\* C6 witness: 14:00, the last minute of the lunch break of the default schedule
C6_Witness ==
    /\ pc = "on_break"
    /\ config.work_schedule = DefaultSchedule
    /\ TimeOfDay(current_time) = strptime(HM(14, 0))

-----------------------------------------------------------------------------
(* get_next_app on its own: one call, for application lists and sessions *)

MaxApps == 3

AppNames == {"Slack", "Docker Desktop", "Firefox"}

AppLists == UNION { [1 .. n -> AppNames] : n \in 0 .. MaxApps }

InitNextApp ==
    /\ config \in { Config(NoBreakSchedule, apps, NoCustom) : apps \in AppLists }
    /\ now = StartClock
    /\ current_app \in AppNames \cup {None}
    /\ app_start_time = IF current_app = None THEN NoTime ELSE StartClock
    /\ session_duration \in SessionDurations
    /\ pc = "get_next_app"
    /\ current_time = 0
    /\ next_app = None
    /\ activity = NoActivity
    /\ step = 0
    /\ log = <<>>
    /\ outcome = "none"
    /\ opens_since_close = IF current_app = None THEN 0 ELSE 1
    /\ failed_step = 0
    /\ intr = NoSignal
    /\ events = <<>>
    /\ last_state = "NONE"
    /\ looked_up = EmptyProfile
    /\ NoInstaller
    /\ NoMain

\* a call of ActivityAgent.get_next_app
GetNextApp ==
    /\ pc = "get_next_app"
    /\ next_app' \in get_next_app(config.applications_used, current_app)
    /\ pc' = "returned"
    /\ events' = <<>>
    /\ UNCHANGED <<invocation, installer, config, looked_up, last_state, now, session, current_time, activity, step, executor,
                   failed_step, intr>>

SpecNextApp == InitNextApp /\ [][GetNextApp]_vars

\* C7 as stated: with at least 2 entries in the list, get_next_app never
\* returns current_app; with exactly 1 entry it returns that entry.
C7_NeverCurrentWithTwoEntries ==
    LET apps == config.applications_used
    IN  pc = "returned" =>
          /\ Len(apps) >= 2 => next_app # current_app
          /\ Len(apps) = 1 => next_app = apps[1]

\* C7 amended: when the list holds an entry other than current_app (so any
\* list with 2 different entries), get_next_app returns an entry of the list
\* other than current_app; when every entry equals current_app (a list of 1
\* entry, or of copies of one name) it returns that entry; a list of exactly
\* 1 entry always yields that entry.
C7_NeverCurrentWhenAnotherEntryExists ==
    LET apps == config.applications_used
    IN  pc = "returned" =>
          /\ (\E i \in DOMAIN apps : apps[i] # current_app) =>
                (next_app # current_app /\ next_app \in Range(apps))
          /\ (apps # <<>> /\ \A i \in DOMAIN apps : apps[i] = current_app) =>
                next_app = current_app
          /\ Len(apps) = 1 => next_app = apps[1]

\* C7 witness: a list of two different applications, the first one current
C7_Witness ==
    /\ pc = "returned"
    /\ Len(config.applications_used) = 2
    /\ config.applications_used[1] # config.applications_used[2]
    /\ current_app = config.applications_used[1]
    /\ next_app = config.applications_used[2]

-----------------------------------------------------------------------------
(* Properties of the scheduler loop *)

ws_of_run == config.work_schedule

OfKind(k) == SelectSeq(log, LAMBDA e : e.kind = k)

StepCommands == [i \in DOMAIN OfKind("step") |-> OfKind("step")[i].command]

\* C1: the executor never receives two open commands without a close command
\* between them, and current_app is None or one application name.
C1_NoTwoOpensWithoutClose ==
    /\ opens_since_close <= 1
    /\ current_app \in Range(config.applications_used) \cup {None}

\* C2 as stated: no open command and no step is issued at an instant that the
\* schedule evaluator classifies as OFF_HOURS or ON_BREAK (at warm_up the open
\* command, at step_pause the step, has just been issued at the instant now).
C2_NoCommandAtOffOrBreakInstant ==
    pc \in {"warm_up", "step_pause"} => classify(now, ws_of_run) = "WORKING"

\* C2 amended: no open command and no step is issued in an iteration whose
\* schedule evaluation, sampled at the top of the iteration, is OFF_HOURS or
\* ON_BREAK; the sleeps of a WORKING iteration may carry its commands past
\* the start of a break or the end of the work window.
C2_NoCommandInOffOrBreakIteration ==
    (\/ pc \in {"warm_up", "run_step", "step_pause"}
     \/ OfKind("open") # <<>>
     \/ OfKind("step") # <<>>)
    => classify(current_time, ws_of_run) = "WORKING"

\* C2 witness: a step issued after the break has begun, in an iteration that
\* was evaluated before it
C2_Witness ==
    /\ pc = "step_pause"
    /\ classify(current_time, ws_of_run) = "WORKING"
    /\ classify(now, ws_of_run) = "ON_BREAK"

\* the step of the OFF_HOURS / ON_BREAK branch that closes and goes to sleep
C3_BranchStep ==
    (pc \in {"off_hours", "on_break"} /\ pc' = "poll_sleep") =>
        /\ classify(current_time, ws_of_run) \in {"OFF_HOURS", "ON_BREAK"}
        /\ log = <<>>
        /\ log' = IF current_app # None
                  THEN <<Entry("close", current_app, app_configs[current_app].close)>>
                  ELSE <<>>
        /\ current_app' = None
        /\ app_start_time' = NoTime
        /\ now' = now

\* the sleep of the branch, and the return to the top of the loop
C3_SleepStep ==
    (pc = "poll_sleep" /\ pc' \notin {"interrupted", "faulted"}) =>
        /\ now' = now + PollInterval
        /\ pc' = "loop_top"
        /\ log' = log
        /\ OfKind("open") = <<>> /\ OfKind("step") = <<>>
        /\ current_app' = None /\ app_start_time' = NoTime

\* an evaluation that is not WORKING enters the branch
C3_EnterStep ==
    (pc = "loop_top" /\ pc' \notin {"interrupted", "faulted"}
        /\ classify(now, ws_of_run) # "WORKING")
    => pc' \in {"off_hours", "on_break"}

\* C3: in an iteration evaluated OFF_HOURS or ON_BREAK, the close command of
\* the current application (if one is set) is issued and the session is
\* cleared, no open command and no step is issued, and the loop sleeps 300 s
\* and goes back to the evaluation.
C3_OffHoursOrBreakIteration ==
    [][C3_EnterStep /\ C3_BranchStep /\ C3_SleepStep]_vars

\* C3 witness: asleep in the branch, the application closed by it
C3_Witness ==
    /\ pc = "poll_sleep"
    /\ Len(log) = 1 /\ log[1].kind = "close"
    /\ current_app = None /\ app_start_time = NoTime
    /\ now + PollInterval <= MaxClock

\* C8: in a WORKING iteration that closes the open application X and opens
\* one, with more than one entry in the application list, the application
\* opened is not X.
C8_SwitchOpensAnotherApp ==
    \A i, j \in DOMAIN log :
        ( /\ i < j
          /\ log[i].kind = "close" /\ log[j].kind = "open"
          /\ Len(config.applications_used) > 1 )
        => log[j].app # log[i].app

\* C9: simulate_activity issues the commands of the chosen script once each
\* and in order, whatever commands fail: before a command is issued the
\* earlier ones have been, and when the script is left all have been; the
\* loop then goes on to its pause and the next iteration.
C9_EveryStepIssuedInOrder ==
    /\ pc = "run_step" =>
          /\ step \in 1 .. Len(activity.commands)
          /\ StepCommands = SubSeq(activity.commands, 1, step - 1)
    /\ pc = "step_pause" =>
          /\ step \in 1 .. Len(activity.commands)
          /\ StepCommands = SubSeq(activity.commands, 1, step)
    /\ pc = "activity_pause" => StepCommands = activity.commands
    /\ failed_step # 0 => pc \in {"step_pause", "run_step", "activity_pause", "hung"}

\* C9 witness: a script of 4 commands whose first command failed, all 4 issued
C9_Witness ==
    /\ pc = "activity_pause"
    /\ failed_step = 1
    /\ Len(activity.commands) = 4
    /\ Len(OfKind("step")) = 4

\* C10: after a stop signal that finds current_app = X, the handler issues
\* exactly one close command, the one of X, before the process exits; after
\* one that finds current_app = None it issues no command.
C10_OneCloseOnStop ==
    pc = "exited" =>
        log = IF intr.app # None
              THEN <<Entry("close", intr.app, app_configs[intr.app].close)>>
              ELSE <<>>

\* C10 witness: exited after a signal that found an application open; the
\* handler's close command is the one command since the signal
C10_Witness ==
    /\ pc = "exited"
    /\ intr.app # None
    /\ Len(log) = 1
    /\ opens_since_close = 0
    /\ current_app = None

-----------------------------------------------------------------------------
(* Shutdown and faults *)

\* C11: after a stop signal that finds an application open, the process
\* eventually exits, also when the close command never returns.
C11_ShutdownTerminates ==
    (pc = "interrupted" /\ current_app # None) ~> (pc = "exited")

\* the positions of run at a time.sleep: the suspension points
SleepPcs == {"poll_sleep", "app_pause", "warm_up", "step_pause", "activity_pause"}

\* C12: the stop signal takes effect only at one of the loop's sleeps, and
\* what it finds agrees with the executor: an application is recorded as
\* current exactly when an open command has been issued and not yet followed
\* by a close command.
C12_SignalOnlyAtSuspensionPoint ==
    [][ (pc # "interrupted" /\ pc' = "interrupted") =>
            /\ pc \in SleepPcs
            /\ (current_app' = None) <=> (opens_since_close' = 0) ]_vars

-----------------------------------------------------------------------------
(* The session state machine *)

LastOpen == OfKind("open")[Len(OfKind("open"))]

\* C13: when open_application has issued the open command and the command
\* has ended (exit status 0, another exit status, or an exception),
\* current_app is that application and app_start_time the instant of the
\* call; for the rest of the iteration the application is the current one,
\* and the steps issued are steps of it.
C13_OpenSetsSessionWhateverTheOutcome ==
    /\ pc = "warm_up" =>
          /\ outcome \in Outcomes
          /\ log # <<>>
          /\ log[Len(log)] = Entry("open", next_app, Commands(next_app).open)
          /\ current_app = next_app
          /\ app_start_time = now
    /\ (pc \in {"warm_up", "simulate", "run_step", "step_pause", "activity_pause"}
           /\ OfKind("open") # <<>>) =>
          /\ current_app = LastOpen.app
          /\ \A i \in DOMAIN OfKind("step") : OfKind("step")[i].app = current_app

\* C13 witness: the open command raised, and the application is current
C13_Witness ==
    /\ pc = "warm_up"
    /\ outcome = "raised"
    /\ current_app = next_app
    /\ current_app # None
    /\ app_start_time = now

\* a step of run or of a handler through one of the guarded calls of
\* close_application
ClosePointStep ==
    \/ pc \in {"off_hours", "on_break"} /\ pc' = "poll_sleep"
    \/ pc = "working" /\ pc' = "app_pause"
    \/ pc = "interrupted" /\ pc' = "exited"
    \/ pc = "faulted" /\ pc' = "crashed"

\* C14: a close with no application open issues no command and leaves
\* current_app, app_start_time and session_duration as they are; and every
\* close leaves no application open, so that a second close in a row is
\* such a close and changes nothing more.
C14_CloseWithNoneOpenIsNoOp ==
    [][ ClosePointStep =>
          /\ current_app = None =>
                /\ log' = log
                /\ opens_since_close' = opens_since_close
                /\ UNCHANGED session
          /\ current_app' = None
          /\ app_start_time' = NoTime ]_vars

\* C14 witness: the second off-hours or break iteration in a row of a run
\* that has applications to open: the first closed the application, the
\* second found none open and issued nothing
C14_Witness ==
    /\ pc = "poll_sleep"
    /\ current_time >= StartClock + PollInterval
    /\ config.applications_used = <<"Slack">>
    /\ log = <<>>
    /\ current_app = None
    /\ app_start_time = NoTime

\* the step ends run: a signal or a fault
LeavesRun == pc' \in {"interrupted", "faulted"}

\* the switch decision of a WORKING iteration, its command returning
C15_DecisionStep ==
    (pc = "working" /\ ~LeavesRun /\ pc' # "hung") =>
        /\ pc' \in {"app_pause", "simulate"}
        /\ pc' = "app_pause" <=>
              (current_app = None \/ now - app_start_time >= session_duration)
        /\ pc' = "simulate" => (log' = log /\ UNCHANGED session)

\* after the decision the iteration issues steps only and keeps the session
C15_RestOfIteration ==
    (pc \in {"simulate", "run_step", "step_pause", "activity_pause"} /\ ~LeavesRun) =>
        /\ UNCHANGED session
        /\ \A i \in DOMAIN log' : i > Len(log) => log'[i].kind = "step"

\* C15: a WORKING iteration switches exactly when current_app is None or
\* now - app_start_time >= session_duration; when it does not switch it
\* issues no open and no close command and leaves current_app,
\* app_start_time and session_duration unchanged.
C15_SwitchExactlyWhenDue ==
    [][C15_DecisionStep /\ C15_RestOfIteration]_vars

\* C15 witness: the end of an iteration that did not switch: steps only,
\* in an application opened by an earlier iteration
C15_Witness ==
    /\ pc = "activity_pause"
    /\ current_app # None
    /\ current_time - app_start_time < session_duration
    /\ OfKind("open") = <<>> /\ OfKind("close") = <<>>
    /\ OfKind("step") # <<>>

\* C16: a WORKING iteration that has a current application after the switch
\* step (freshly opened or unchanged) chooses one activity script of that
\* application's profile and issues exactly its commands, in order; one
\* that has no current application issues no step.
C16_OneActivityPerIteration ==
    /\ pc \in {"run_step", "step_pause"} =>
          /\ current_app # None
          /\ activity \in Range(app_configs[current_app].activities)
    /\ pc = "activity_pause" =>
          IF current_app # None
          THEN /\ activity \in Range(app_configs[current_app].activities)
               /\ StepCommands = activity.commands
               /\ \A i \in DOMAIN OfKind("step") : OfKind("step")[i].app = current_app
          ELSE /\ activity = NoActivity
               /\ OfKind("step") = <<>>

\* C16 witness: the script of an iteration that kept the application of an
\* earlier one, all its commands issued
C16_Witness ==
    /\ pc = "activity_pause"
    /\ current_app # None
    /\ log # <<>>
    /\ \A i \in DOMAIN log : log[i].kind = "step"
    /\ Len(log) = Len(activity.commands)
    /\ app_start_time < current_time

\* the step in which open_application returns True
C17_OpenStep == pc = "open_next" /\ pc' = "warm_up"

\* C17: session_duration is within [300, 900] in every state; the step that
\* opens an application draws it anew from that range and sets
\* app_start_time to the instant of the opening; no other step changes it.
C17_SessionDurationDrawnAtOpen ==
    /\ [](session_duration \in SessionMin .. SessionMax)
    /\ [][ /\ C17_OpenStep =>
                /\ session_duration' \in SessionMin .. SessionMax
                /\ app_start_time' = now
                /\ current_app' # None
           /\ session_duration' # session_duration => C17_OpenStep ]_vars

\* C17 witness: the second opening of a run: the first session lasted its
\* 300 s, the new one is to last 900 s
C17_Witness ==
    /\ pc = "warm_up"
    /\ OfKind("close") # <<>>
    /\ app_start_time = now
    /\ app_start_time >= StartClock + SessionMin
    /\ session_duration = SessionMax

\* a step taken after the fault
C18_AfterFault ==
    pc \in {"faulted", "crashed"} =>
        /\ pc' \in {"crashed", "hung_in_handler"}
        /\ \A i \in DOMAIN log' : log'[i].kind = "close"

\* C18: after an exception other than the stop signal has left the loop with
\* current_app = X, the only command issued is the close command of X, once;
\* when the handler has run, current_app and app_start_time are cleared and
\* the process has ended: the loop is not entered again and no open command
\* and no step follows the fault.
C18_FaultClosesAndTerminates ==
    /\ [](pc = "crashed" =>
            /\ log = IF intr.app # None
                      THEN <<Entry("close", intr.app, app_configs[intr.app].close)>>
                      ELSE <<>>
            /\ current_app = None
            /\ app_start_time = NoTime)
    /\ [][C18_AfterFault]_vars

\* C18 witness: the process ended after a fault that found an application
\* open; its close command is the one command since the fault
C18_Witness ==
    /\ pc = "crashed"
    /\ ~intr.received
    /\ intr.app # None
    /\ Len(log) = 1
    /\ log[1].app = intr.app
    /\ current_app = None

-----------------------------------------------------------------------------
(* open_application, close_application and simulate_activity on their own: *)
(* one call, for names the catalog knows and names it does not             *)

CallNames == {"Slack", "Firefox", "Terminal", "Notes", "LibreOffice"}

InitCalls ==
    /\ config \in Configs
    /\ now = StartClock
    /\ current_app \in {None} \cup {app \in CallNames : HasKey(Commands(app), "open")}
    /\ app_start_time = IF current_app = None THEN NoTime ELSE StartClock
    /\ session_duration \in SessionDurations
    /\ pc = "call"
    /\ current_time = 0
    /\ next_app = None
    /\ activity = NoActivity
    /\ step = 0
    /\ log = <<>>
    /\ outcome = "none"
    /\ opens_since_close = IF current_app = None THEN 0 ELSE 1
    /\ failed_step = 0
    /\ intr = NoSignal
    /\ events = <<>>
    /\ last_state = "NONE"
    /\ looked_up = EmptyProfile
    /\ NoInstaller
    /\ NoMain

\* a call of ActivityAgent.open_application(app)
CallOpen ==
    /\ pc = "call"
    /\ \E app \in CallNames :
         /\ next_app' = app
         /\ IF HasKey(Commands(app), "open")
            THEN /\ open_application(app)
                 /\ events' = OpenLogged(app, outcome')
                 /\ pc' = "returned_true"
            ELSE /\ pc' = "returned_false"
                 /\ events' = <<>>
                 /\ UNCHANGED <<current_app, app_start_time, executor>>
    /\ UNCHANGED <<invocation, installer, config, looked_up, last_state, now, session_duration, current_time, activity, step,
                   failed_step, intr>>

\* a call of ActivityAgent.close_application(app)
CallClose ==
    /\ pc = "call"
    /\ \E app \in CallNames :
         /\ next_app' = app
         /\ close_application(app)
         /\ events' = CloseLogged(app, outcome')
    /\ pc' = "closed"
    /\ UNCHANGED <<invocation, installer, config, looked_up, last_state, now, session_duration, current_time, activity, step,
                   failed_step, intr>>

\* a call of ActivityAgent.simulate_activity(app), for the current
\* application as run calls it, or for a name without activities
CallSimulate ==
    /\ pc = "call"
    /\ \E app \in CallNames :
         /\ app = current_app \/ ~HasKey(Commands(app), "activities")
         /\ next_app' = app
         /\ IF HasKey(Commands(app), "activities")
            THEN \E a \in Range(Commands(app).activities) :
                   /\ activity' = a
                   /\ step' = 1
                   /\ events' = <<Event("INFO", "Simulating activity", a.description)>>
                   /\ pc' = IF a.commands = <<>> THEN "simulated" ELSE "run_step"
            ELSE /\ pc' = "simulated"
                 /\ events' = <<>>
                 /\ UNCHANGED <<activity, step>>
    /\ UNCHANGED <<invocation, installer, config, looked_up, last_state, now, session, current_time, failed_step, executor, intr>>

SpecCalls ==
    InitCalls /\ [][CallOpen \/ CallClose \/ CallSimulate \/ RunStep \/ StepPause]_vars

\* a name that neither custom_commands nor app_configs has
Unknown(app_name) ==
    /\ app_name \notin DOMAIN config.custom_commands
    /\ app_name \notin DOMAIN app_configs

\* the call made was for a name the catalog does not know
LookupMiss == next_app # None /\ Unknown(next_app)

\* a call for a name the catalog does not know
C19_MissStep ==
    (pc = "call" /\ Unknown(next_app')) =>
        /\ Commands(next_app') = EmptyProfile
        /\ log' = log
        /\ opens_since_close' = opens_since_close
        /\ pc' \in {"returned_false", "closed", "simulated"}
        /\ pc' \in {"returned_false", "simulated"} => UNCHANGED session
        /\ pc' = "closed" => (current_app' = None /\ app_start_time' = NoTime)

\* C19: for a name the catalog does not know, open_application issues no
\* command, returns False and leaves the session as it is; simulate_activity
\* issues no command; close_application issues no command; each of the three
\* returns.
C19_UnknownApplicationIsNoOp == [][C19_MissStep]_vars

\* C19 witness: open_application("Firefox") has returned False, no
\* application current and nothing issued
C19_Witness ==
    /\ pc = "returned_false"
    /\ next_app = "Firefox"
    /\ LookupMiss
    /\ current_app = None
    /\ log = <<>>

\* C20: a call of open_application, close_application or simulate_activity
\* for a name the lookup does not find leaves a WARNING record in the log
\* sink.
C20_LookupMissLogsWarning ==
    (pc \in {"returned_false", "closed", "simulated"} /\ LookupMiss) =>
        \E i \in DOMAIN events : events[i].level = "WARNING"

-----------------------------------------------------------------------------
(* get_application_commands on its own: one call, for names in the custom *)
(* commands, in the built-in catalog, in both and in neither               *)

\* a custom profile for a name the built-in catalog has too
SlackOverride ==
    [open |-> "flatpak run com.slack.Slack", close |-> "flatpak kill com.slack.Slack",
     activities |-> <<Script("Reading a channel", <<"xdotool key ctrl+k">>)>>]

OverrideCustom ==
    [x \in {"Slack", "Terminal"} |->
        IF x = "Slack" THEN SlackOverride ELSE TerminalProfile]

LookupCustoms == {NoCustom, SampleCustom, LooseCustom, OverrideCustom}

LookupNames == {"Slack", "Visual Studio Code", "Google Chrome", "Docker Desktop",
                "Terminal", "Notes", "Firefox"}

InitLookup ==
    /\ config \in { Config(ws, apps, custom) :
                       ws \in {DefaultSchedule, NoBreakSchedule},
                       apps \in {<<>>, <<"Slack">>},
                       custom \in LookupCustoms }
    /\ now = StartClock
    /\ current_app = None
    /\ app_start_time = NoTime
    /\ session_duration \in SessionDurations
    /\ pc = "lookup"
    /\ current_time = 0
    /\ next_app \in LookupNames
    /\ activity = NoActivity
    /\ step = 0
    /\ log = <<>>
    /\ outcome = "none"
    /\ opens_since_close = 0
    /\ failed_step = 0
    /\ intr = NoSignal
    /\ events = <<>>
    /\ last_state = "NONE"
    /\ looked_up = EmptyProfile
    /\ NoInstaller
    /\ NoMain

\* a call of get_application_commands(next_app, self.custom_commands)
Lookup ==
    /\ pc = "lookup"
    /\ looked_up' = get_application_commands(next_app, config.custom_commands)
    /\ pc' = "found"
    /\ UNCHANGED <<invocation, installer, config, last_state, now, session, current_time, locals,
                   executor, intr, events>>

SpecLookup == InitLookup /\ [][Lookup]_vars

\* C21: for a name that custom_commands has, get_application_commands
\* returns the custom profile, also when app_configs has a profile of that
\* name; for a name that neither has, it returns the empty profile.
C21_CustomOverridesFirst ==
    pc = "found" =>
        /\ next_app \in DOMAIN config.custom_commands =>
              looked_up = config.custom_commands[next_app]
        /\ Unknown(next_app) => looked_up = EmptyProfile

\* C21 witness: "Slack" looked up with a custom profile of that name
C21_Witness ==
    /\ pc = "found"
    /\ next_app = "Slack"
    /\ next_app \in DOMAIN config.custom_commands
    /\ next_app \in DOMAIN app_configs
    /\ looked_up = SlackOverride

-----------------------------------------------------------------------------
(* Session, schedule and configuration over the run *)

\* a step that changes current_app or app_start_time sets both or clears both
C22_TogetherStep ==
    (current_app' # current_app \/ app_start_time' # app_start_time) =>
        \/ current_app' = None /\ app_start_time' = NoTime
        \/ current_app' # None /\ app_start_time' = now

\* C22: at every sleep of the loop, and when the process has ended,
\* current_app is None exactly when app_start_time is None; the two are set
\* in one step when an application is opened and cleared in one step when
\* it is closed.
C22_CurrentAppAndStartTimeTogether ==
    /\ [](pc \in SleepPcs \cup {"exited", "crashed"} =>
            (current_app = None <=> app_start_time = NoTime))
    /\ [][C22_TogetherStep]_vars

\* C22 witness: the pause between applications after a switch closed the
\* current one: both cleared
C22_Witness ==
    /\ pc = "app_pause"
    /\ OfKind("close") # <<>>
    /\ current_app = None
    /\ app_start_time = NoTime

\* the records of run that tell the schedule state
ScheduleMessages ==
    {"Work time ended, closing current application", "Outside work hours, sleeping...",
     "Break time, closing current application", "Break time, sleeping..."}

ScheduleEvents == SelectSeq(events, LAMBDA e : e.message \in ScheduleMessages)

\* C23: an evaluation whose schedule state differs from the one of the
\* evaluation before it is followed by exactly one schedule-state record
\* (entering off-hours, a break, or working time), and an evaluation whose
\* schedule state is the same by none.
C23_OneEventPerScheduleChange ==
    /\ pc = "poll_sleep" =>
          Len(ScheduleEvents) =
              IF last_state # classify(current_time, ws_of_run) THEN 1 ELSE 0
    /\ (pc = "app_pause" /\ last_state \in {"OFF_HOURS", "ON_BREAK"}) =>
          Len(ScheduleEvents) = 1
    /\ (pc \in {"app_pause", "simulate"} /\ last_state = "WORKING") =>
          Len(ScheduleEvents) = 0

\* C24: no step of the agent changes its configuration: the application
\* list (content and order), the work schedule and the custom commands stay
\* what they were at construction.
C24_ConfigNeverMutated == [][config' = config]_vars

\* C24 witness: a second application opened, after get_next_app has been
\* called twice on the list of two
C24_Witness ==
    /\ pc = "warm_up"
    /\ OfKind("close") # <<>>
    /\ Len(config.applications_used) = 2
    /\ current_app \in Range(config.applications_used)
    /\ config \in Configs

\* a command handed to subprocess.run has not returned
InFlight == outcome = "hung"

\* a step that hands a command to the executor
C25_IssueStep ==
    Len(log') > Len(log) =>
        /\ ~InFlight
        /\ Len(log') = Len(log) + 1
        /\ outcome' \in Outcomes \cup {"hung"}

\* C25: a command (open, close or step) is handed to the executor only when
\* no earlier command is still running, and one at a time.
C25_ExecutorCallsSerialized == [][C25_IssueStep]_vars

\* C25 witness: the second step of a script issued in the iteration that
\* opened the application: three commands, each after the one before returned
C25_Witness ==
    /\ pc = "step_pause"
    /\ step = 2
    /\ outcome \in Outcomes
    /\ Len(log) = 3
    /\ log[1].kind = "open"

-----------------------------------------------------------------------------
(* Progress of the loop *)

\* with no application current, outside working time nothing is issued
C26_StaysClosed ==
    ( /\ current_app = None
      /\ \/ pc \in {"off_hours", "on_break", "poll_sleep"}
         \/ pc = "loop_top" /\ classify(now, ws_of_run) # "WORKING" )
    => /\ current_app' = None
       /\ Len(log') <= Len(log)
       /\ opens_since_close' = opens_since_close

\* C26: when every command returns, an iteration evaluated off-hours or
\* break leaves no application current before it sleeps; from then on, as
\* long as the evaluations are not WORKING, current_app stays None and no
\* command is issued.
C26_ClosedOutsideWorkingTime ==
    /\ (pc \in {"off_hours", "on_break"}) ~> (pc = "poll_sleep" /\ current_app = None)
    /\ [][C26_StaysClosed]_vars

\* C26 witness: asleep after the second off-hours evaluation in a row, the
\* application of the working time before closed by the first
C26_Witness ==
    /\ pc = "poll_sleep"
    /\ last_state = "OFF_HOURS"
    /\ ws_of_run = MorningShift
    /\ config.applications_used # <<>>
    /\ current_app = None
    /\ log = <<>>

\* the longest script of app_configs has 6 commands
MaxScript == 6

\* the longest a WORKING iteration sleeps before its pause between activities
IterationMax == AppPauseMax + WarmUp + MaxScript * StepPauseMax

\* the configured list is not empty and the catalog knows every name of it
AllKnown ==
    /\ config.applications_used # <<>>
    /\ \A app \in Range(config.applications_used) : ~Unknown(app)

\* the iteration has opened one application and run one script of it
OneOpenedOneActivity ==
    /\ pc = "activity_pause"
    /\ current_app # None
    /\ Len(OfKind("open")) = 1
    /\ LastOpen.app = current_app
    /\ activity \in Range(Commands(current_app).activities)
    /\ StepCommands = activity.commands

\* C27: when every command returns and every configured application is
\* known, a WORKING iteration that starts with no current application comes
\* to its pause between activities with one application opened and one
\* activity script of it executed; the pause leads to the next evaluation,
\* and the loop has no way out of its own.
C27_WorkingIterationOpensAndSimulates ==
    /\ (pc = "working" /\ current_app = None /\ AllKnown
           /\ now + IterationMax <= MaxClock)
          ~> OneOpenedOneActivity
    /\ (pc = "activity_pause" /\ now + ActivityPauseMax <= MaxClock)
          ~> (pc = "loop_top")
    /\ [](pc \in RunPcs \ {"hung"})

\* C27 witness: the end of the first iteration of a run in working time
C27_Witness ==
    /\ OneOpenedOneActivity
    /\ AllKnown
    /\ last_state = "NONE"
    /\ OfKind("close") = <<>>
    /\ Len(activity.commands) >= 2

\* the configured list is empty or holds only names the catalog does not know
NothingToOpen == \A app \in Range(config.applications_used) : Unknown(app)

C28_NoRedraw == NothingToOpen => session_duration' = session_duration

\* C28: with an empty list, or a list of unknown names only, no command is
\* ever issued, current_app stays None, session_duration keeps the value of
\* the constructor, and every iteration in working time comes to its pause
\* and from there to the next evaluation.
C28_IdleWithNothingToOpen ==
    /\ [](NothingToOpen =>
             /\ current_app = None
             /\ log = <<>>
             /\ opens_since_close = 0
             /\ activity = NoActivity
             /\ pc \in RunPcs \ {"hung"})
    /\ [][C28_NoRedraw]_vars
    /\ (NothingToOpen /\ pc = "working"
           /\ now + AppPauseMax + ActivityPauseMax <= MaxClock)
          ~> (pc = "activity_pause")
    /\ (NothingToOpen /\ pc = "activity_pause"
           /\ now + ActivityPauseMax <= MaxClock)
          ~> (pc = "loop_top")

\* C28 witness: the second working iteration of a run whose only configured
\* application is unknown has chosen that name and opened nothing
C28_Witness ==
    /\ NothingToOpen
    /\ config.applications_used # <<>>
    /\ pc = "activity_pause"
    /\ last_state = "WORKING"
    /\ next_app \in Range(config.applications_used)
    /\ current_app = None
    /\ log = <<>>

\* the break passes midnight: break_end_dt.time() is earlier than break_start
Wraps(t, break_info) == break_end(t, break_info) < strptime(break_info.start)

\* C29: a break whose computed end time of day is earlier than its start
\* contains no instant, so a schedule whose breaks all pass midnight is
\* never evaluated as ON_BREAK, also between the start of the break and 23:59.
C29_BreakOverMidnightNeverApplies ==
    LET breaks == config.work_schedule.breaks
    IN  Evaluated =>
          /\ \A i \in DOMAIN breaks :
                Wraps(current_time, breaks[i]) => ~in_break(current_time, breaks[i])
          /\ (\A i \in DOMAIN breaks : Wraps(current_time, breaks[i]))
                => pc # "on_break"

\* C29 witness: 23:30 or later in a work window that ends at 23:59, the
\* break starting at 23:30 for 60 minutes, evaluated as WORKING
C29_Witness ==
    /\ pc = "working"
    /\ config.work_schedule.breaks = <<[start |-> HM(23, 30), duration_minutes |-> 60]>>
    /\ Wraps(current_time, config.work_schedule.breaks[1])
    /\ TimeOfDay(current_time) >= strptime(HM(23, 30))

\* C30: when the process has exited after a stop signal, the executor has
\* received a close command after the last open command it received.
C30_EveryOpenClosedAtExit ==
    (pc = "exited" /\ intr.received) => opens_since_close = 0

-----------------------------------------------------------------------------
(* close_application and the session *)

\* a step through close_application with an application open: the close
\* command, if the profile has one, is issued once and has ended, and the
\* session is cleared
C31_CloseStep ==
    (ClosePointStep /\ current_app # None) =>
        /\ log' = (IF pc \in {"interrupted", "faulted"} THEN <<>> ELSE log)
                      \o CloseEntries(current_app)
        /\ CloseEntries(current_app) # <<>> => outcome' \in Outcomes
        /\ current_app' = None
        /\ app_start_time' = NoTime

\* a step with no application open issues no close command
C31_NoRetry ==
    (current_app = None /\ Len(log') > Len(log)) => log'[Len(log')].kind # "close"

\* C31: close_application clears current_app and app_start_time whether its
\* command succeeded, failed, raised or does not exist; it issues the command
\* once, and no later step issues a close while no application is open.
C31_CloseAlwaysClearsSession ==
    [][C31_CloseStep /\ C31_NoRetry]_vars

\* C31 witness: the switch whose close command failed has cleared the session
C31_Witness ==
    /\ pc = "app_pause"
    /\ log # <<>>
    /\ log[Len(log)].kind = "close"
    /\ outcome = "failed"
    /\ current_app = None
    /\ app_start_time = NoTime

\* C32: the current application, when there is one, is a name of the
\* configured list whose profile, custom or built-in, has an open command.
C32_CurrentAppIsConfiguredAndOpenable ==
    current_app # None =>
        /\ current_app \in Range(config.applications_used)
        /\ HasKey(Commands(current_app), "open")

\* C32 witness: an application with a custom profile is the current one in a
\* list that also holds a built-in name
C32_Witness ==
    /\ current_app # None
    /\ current_app \in DOMAIN config.custom_commands
    /\ \E app \in Range(config.applications_used) : app \in DOMAIN app_configs
    /\ pc = "step_pause"

-----------------------------------------------------------------------------
(* A profile with an empty list of activities *)

\* the profile of the application has an 'activities' entry that is empty
EmptyActivities(app_name) ==
    /\ app_name # None
    /\ HasKey(Commands(app_name), "activities")
    /\ Commands(app_name).activities = <<>>

\* simulate_activity for such an application, no stop signal: the choice
\* raises, no command is issued and the exception leaves run
C33_ChoiceStep ==
    (pc = "simulate" /\ EmptyActivities(current_app) /\ pc' # "interrupted") =>
        /\ pc' = "faulted"
        /\ intr' = [received |-> FALSE, app |-> current_app]
        /\ opens_since_close' = opens_since_close
        /\ current_app' = current_app

\* the handler of the fault, its close command returning: the application
\* is closed and the process is over
C33_HandlerStep ==
    (pc = "faulted" /\ EmptyActivities(intr.app) /\ pc' = "crashed") =>
        /\ log' = CloseEntries(intr.app)
        /\ current_app' = None
        /\ opens_since_close' = 0

C33_NoNextIteration ==
    pc \in {"faulted", "crashed"} => pc' \in {"faulted", "crashed", "hung_in_handler"}

\* C33: with an application open whose profile has an empty list of
\* activities, simulate_activity issues nothing and raises; the fault leaves
\* the loop, the handler closes the application, and no further iteration
\* or pause between activities follows.
C33_EmptyActivitiesFaults ==
    /\ [][C33_ChoiceStep /\ C33_HandlerStep /\ C33_NoNextIteration]_vars
    /\ [](EmptyActivities(current_app) =>
             pc \notin {"run_step", "step_pause", "activity_pause", "loop_top"})

\* C33 witness: the process is over after the fault of the first activity
\* choice, the application closed 5 s after it was opened
C33_Witness ==
    /\ pc = "crashed"
    /\ EmptyActivities(intr.app)
    /\ ~intr.received
    /\ current_app = None
    /\ log = CloseEntries(intr.app)
    /\ opens_since_close = 0
    /\ now = StartClock + AppPauseMin + WarmUp

-----------------------------------------------------------------------------
(* ApplicationInstaller *)

INSTALLATION_CONFIG ==
    [x \in {"vscode", "chrome", "slack", "docker", "xdotool"} |->
       CASE x = "vscode" ->
              [check_command |-> "code --version",
               install_commands |-> <<
                   "wget -qO- https://packages.microsoft.com/keys/microsoft.asc | gpg --dearmor > packages.microsoft.gpg",
                   "sudo install -o root -g root -m 644 packages.microsoft.gpg /etc/apt/trusted.gpg.d/",
                   "sudo sh -c 'echo \"deb [arch=amd64,arm64,armhf signed-by=/etc/apt/trusted.gpg.d/packages.microsoft.gpg] https://packages.microsoft.com/repos/code stable main\" > /etc/apt/sources.list.d/vscode.list'",
                   "sudo apt update",
                   "sudo apt install -y code" >>]
         [] x = "chrome" ->
              [check_command |-> "google-chrome --version",
               install_commands |-> <<
                   "wget -q -O - https://dl.google.com/linux/linux_signing_key.pub | sudo apt-key add -",
                   "sudo sh -c 'echo \"deb [arch=amd64] http://dl.google.com/linux/chrome/deb/ stable main\" >> /etc/apt/sources.list.d/google-chrome.list'",
                   "sudo apt update",
                   "sudo apt install -y google-chrome-stable" >>]
         [] x = "slack" ->
              [check_command |-> "slack --version",
               install_commands |-> <<
                   "wget https://downloads.slack-edge.com/releases/linux/4.33.90/prod/x64/slack-desktop-4.33.90-amd64.deb",
                   "sudo dpkg -i slack-desktop-4.33.90-amd64.deb",
                   "sudo apt-get install -f -y" >>]
         [] x = "docker" ->
              [check_command |-> "docker --version",
               install_commands |-> <<
                   "sudo apt-get update",
                   "sudo apt-get install -y ca-certificates curl gnupg lsb-release",
                   "sudo mkdir -p /etc/apt/keyrings",
                   "curl -fsSL https://download.docker.com/linux/ubuntu/gpg | sudo gpg --dearmor -o /etc/apt/keyrings/docker.gpg",
                   "echo \"deb [arch=$(dpkg --print-architecture) signed-by=/etc/apt/keyrings/docker.gpg] https://download.docker.com/linux/ubuntu $(lsb_release -cs) stable\" | sudo tee /etc/apt/sources.list.d/docker.list > /dev/null",
                   "sudo apt-get update",
                   "sudo apt-get install -y docker-ce docker-ce-cli containerd.io docker-compose-plugin",
                   "sudo usermod -aG docker $USER" >>]
         [] x = "xdotool" ->
              [check_command |-> "xdotool version",
               install_commands |-> <<
                   "sudo apt update",
                   "sudo apt install -y xdotool" >>]]

\* install_all_dependencies: apps_to_install
apps_to_install == <<"xdotool", "vscode", "chrome", "slack", "docker">>

\* time.sleep(2) between two install commands
InstallPause == 2

\* one command handed to ApplicationInstaller.run_command and what it
\* returned as success: exit status 0, or another status / an exception
Ran(kind, key, command, success) ==
    [kind |-> kind, app |-> key, command |-> command, success |-> success]

check_root_privileges == euid = 0

\* install_app returns `value` to its caller
InstallReturns(value) ==
    /\ returned' = value
    /\ pc' = IF caller = "install_all_dependencies" THEN "next_install"
             ELSE "install_app_returned"

\* variant: an application whose check succeeds is recorded again
install_app_RecordsInstalled(key) ==
    /\ app_key' = key
    /\ IF key \notin DOMAIN INSTALLATION_CONFIG
       THEN /\ InstallReturns(TRUE)
            /\ log' = <<>>
            /\ events' = <<Event("WARNING", "No installation config", key)>>
            /\ UNCHANGED <<step, installed_apps>>
       ELSE \E success \in BOOLEAN :
              /\ log' = <<Ran("check", key, INSTALLATION_CONFIG[key].check_command, success)>>
              /\ IF success
                 THEN /\ InstallReturns(TRUE)
                      /\ installed_apps' = Append(installed_apps, key)
                      /\ events' = <<Event("INFO", "already installed", key)>>
                      /\ UNCHANGED step
                 ELSE /\ step' = 1
                      /\ events' = <<Event("INFO", "Installing", key)>>
                      /\ pc' = IF INSTALLATION_CONFIG[key].install_commands = <<>>
                               THEN "check_after" ELSE "install_step"
                      /\ UNCHANGED <<returned, installed_apps>>

\* ApplicationInstaller.install_app up to its first install command:
\* the lookup of the key and is_app_installed
install_app(key) ==
    /\ app_key' = key
    /\ IF key \notin DOMAIN INSTALLATION_CONFIG
       THEN /\ InstallReturns(TRUE)
            /\ log' = <<>>
            /\ events' = <<Event("WARNING", "No installation config", key)>>
            /\ UNCHANGED <<step, installed_apps>>
       ELSE \E success \in BOOLEAN :
              /\ log' = <<Ran("check", key, INSTALLATION_CONFIG[key].check_command, success)>>
              /\ IF success
                 THEN /\ InstallReturns(TRUE)
                      /\ events' = <<Event("INFO", "already installed", key)>>
                      /\ UNCHANGED <<step, installed_apps>>
                 ELSE /\ step' = 1
                      /\ events' = <<Event("INFO", "Installing", key)>>
                      /\ pc' = IF INSTALLATION_CONFIG[key].install_commands = <<>>
                               THEN "check_after" ELSE "install_step"
                      /\ UNCHANGED <<returned, installed_apps>>

agent_vars == <<config, current_app, app_start_time, session_duration,
                current_time, next_app, activity, outcome, opens_since_close,
                failed_step, intr, last_state, looked_up>>

\* a caller other than install_all_dependencies calls install_app(app_key)
InstallAppCalled ==
    /\ pc = "call_install_app"
    /\ install_app(app_key)
    /\ UNCHANGED <<agent_vars, invocation, now, euid, todo, caller>>

\* install_all_dependencies up to its first install_app
InstallAllDependencies ==
    /\ pc = "install_all"
    /\ IF ~check_root_privileges
       THEN /\ returned' = FALSE
            /\ pc' = "install_all_returned"
            /\ events' = <<Event("ERROR", "Root privileges required for installation", None)>>
            /\ UNCHANGED <<log, todo>>
       ELSE /\ \E success \in BOOLEAN :
                 log' = <<Ran("update", None, "sudo apt update", success)>>
            /\ todo' = apps_to_install
            /\ events' = <<Event("INFO", "Updating system packages...", None)>>
            /\ pc' = "next_install"
            /\ UNCHANGED returned
    /\ UNCHANGED <<agent_vars, invocation, now, step, installed_apps, euid, app_key, caller>>

\* `for app in apps_to_install: if not self.install_app(app): ...`, and the
\* end of install_all_dependencies
NextInstall ==
    /\ pc = "next_install"
    /\ IF todo = <<>>
       THEN /\ returned' = TRUE
            /\ pc' = "install_all_returned"
            /\ events' = <<Event("INFO", "Installation complete", None)>>
            /\ UNCHANGED <<log, step, installed_apps, app_key, todo>>
       ELSE /\ install_app(Head(todo))
            /\ todo' = Tail(todo)
    /\ UNCHANGED <<agent_vars, invocation, now, euid, caller>>

\* variant: a failed install command is skipped and the next one executed
InstallStep_SkipsFailure ==
    /\ pc = "install_step"
    /\ LET cmd == INSTALLATION_CONFIG[app_key].install_commands[step]
           last == step = Len(INSTALLATION_CONFIG[app_key].install_commands)
       IN  \E success \in BOOLEAN :
             /\ log' = Append(log, Ran("install", app_key, cmd, success))
             /\ now' = now + InstallPause
             /\ step' = step + 1
             /\ events' = <<Event("INFO", "Executing", cmd)>>
             /\ pc' = IF last THEN "check_after" ELSE "install_step"
             /\ UNCHANGED returned
    /\ UNCHANGED <<agent_vars, invocation, installed_apps, euid, todo, app_key, caller>>

\* install_app: one install command and the pause after it
InstallStep ==
    /\ pc = "install_step"
    /\ LET cmd == INSTALLATION_CONFIG[app_key].install_commands[step]
           last == step = Len(INSTALLATION_CONFIG[app_key].install_commands)
       IN  \E success \in BOOLEAN :
             /\ log' = Append(log, Ran("install", app_key, cmd, success))
             /\ IF success
                THEN /\ now' = now + InstallPause
                     /\ step' = step + 1
                     /\ events' = <<Event("INFO", "Executing", cmd)>>
                     /\ pc' = IF last THEN "check_after" ELSE "install_step"
                     /\ UNCHANGED returned
                ELSE /\ InstallReturns(FALSE)
                     /\ events' = <<Event("INFO", "Executing", cmd),
                                    Event("ERROR", "Failed to execute", cmd)>>
                     /\ UNCHANGED <<now, step>>
    /\ UNCHANGED <<agent_vars, invocation, installed_apps, euid, todo, app_key, caller>>

\* install_app: is_app_installed after the last install command
CheckAfter ==
    /\ pc = "check_after"
    /\ \E success \in BOOLEAN :
         /\ log' = Append(log, Ran("check", app_key,
                                   INSTALLATION_CONFIG[app_key].check_command, success))
         /\ IF success
            THEN /\ installed_apps' = Append(installed_apps, app_key)
                 /\ InstallReturns(TRUE)
                 /\ events' = <<Event("INFO", "installed successfully", app_key)>>
            ELSE /\ InstallReturns(FALSE)
                 /\ events' = <<Event("ERROR", "Failed to install", app_key)>>
                 /\ UNCHANGED installed_apps
    /\ UNCHANGED <<agent_vars, invocation, now, step, euid, todo, app_key, caller>>

\* the keys install_app is called with: those of apps_to_install and one
\* that INSTALLATION_CONFIG does not have
InstallKeys == Range(apps_to_install) \cup {"gimp"}

\* ApplicationInstaller() constructed, then install_all_dependencies(), or
\* install_app(app_key) a first or a second time, as root or not
InitInstaller ==
    /\ config = USER_CONFIG
    /\ now = StartClock
    /\ NoAgent
    /\ NoMain
    /\ euid \in {0, 1000}
    /\ todo = <<>>
    /\ returned = "none"
    /\ \/ /\ pc = "install_all"
          /\ caller = "install_all_dependencies"
          /\ app_key = None
          /\ installed_apps = <<>>
       \/ /\ pc = "call_install_app"
          /\ caller = "client"
          /\ app_key \in InstallKeys
          /\ installed_apps \in {<<>>, <<app_key>>}

Install == InstallAllDependencies \/ InstallAppCalled \/ NextInstall
              \/ InstallStep \/ CheckAfter

SpecInstaller == InitInstaller /\ [][Install]_vars

\* the install commands of the current install_app call the executor has had
Installs == SelectSeq(log, LAMBDA e : e.kind = "install")

\* install_app has got past the lookup of its key: the log is that of the call
InInstallApp ==
    /\ app_key \in DOMAIN INSTALLATION_CONFIG
    /\ log # <<>>
    /\ log[1].kind = "check"

ReturnPcs == {"next_install", "install_app_returned", "install_all_returned"}

\* the install commands executed are a prefix of the list, in its order; all
\* but the last have succeeded; a failed one is the last command of the call,
\* which has returned False
C34_InOrderUntilFailure ==
    InInstallApp =>
      LET cmds == INSTALLATION_CONFIG[app_key].install_commands
      IN  /\ Len(Installs) <= Len(cmds)
          /\ \A i \in DOMAIN Installs :
                /\ Installs[i].command = cmds[i]
                /\ i < Len(Installs) => Installs[i].success
                /\ ~Installs[i].success =>
                      /\ log[Len(log)] = Installs[i]
                      /\ pc \in ReturnPcs

\* the step in which an install command fails returns False and records nothing
C34_FailureStep ==
    (pc = "install_step" /\ ~log'[Len(log')].success /\ log'[Len(log')].kind = "install") =>
        /\ returned' = FALSE
        /\ pc' \in ReturnPcs
        /\ installed_apps' = installed_apps

\* installed_apps grows by the application of the call, after all its
\* install commands and then its check command have succeeded
C34_RecordStep ==
    installed_apps' # installed_apps =>
        /\ installed_apps' = Append(installed_apps, app_key)
        /\ returned' = TRUE
        /\ LET cmds == INSTALLATION_CONFIG[app_key].install_commands
               done == SelectSeq(log', LAMBDA e : e.kind = "install")
           IN  /\ [i \in DOMAIN done |-> done[i].command] = cmds
               /\ \A i \in DOMAIN done : done[i].success
               /\ Len(log') = Len(cmds) + 2
               /\ log'[Len(log')].kind = "check"
               /\ log'[Len(log')].success

\* C34: install_app executes the install commands in list order and stops at
\* the first that fails, returning False without recording the application;
\* an application is recorded only after all its install commands and the
\* check that follows have succeeded.
C34_InstallStopsAtFirstFailure ==
    /\ [](C34_InOrderUntilFailure)
    /\ [][C34_FailureStep /\ C34_RecordStep]_vars

\* C34 witness: the third of docker's eight install commands has failed
C34_Witness ==
    /\ app_key = "docker"
    /\ InInstallApp
    /\ Len(Installs) = 3
    /\ ~Installs[3].success
    /\ returned = FALSE
    /\ pc = "next_install"
    /\ "docker" \notin Range(installed_apps)

\* a step that calls install_app
C35_CallStep ==
    \/ pc = "call_install_app"
    \/ pc = "next_install" /\ todo # <<>>

\* the call for a key without installation config, or whose check command
\* succeeds, returns True, executes no install command and records nothing
C35_AlreadyInstalledStep ==
    ( /\ C35_CallStep
      /\ \/ app_key' \notin DOMAIN INSTALLATION_CONFIG
         \/ log' # <<>> /\ log'[1].success ) =>
        /\ returned' = TRUE
        /\ pc' \in ReturnPcs
        /\ installed_apps' = installed_apps
        /\ \A i \in DOMAIN log' : log'[i].kind = "check"
        /\ Len(log') <= 1

\* the loop of install_all_dependencies goes to the next application of the
\* list whatever the call before returned
C35_NextStep ==
    (pc = "next_install" /\ todo # <<>>) =>
        /\ app_key' = Head(todo)
        /\ todo' = Tail(todo)

\* install_all_dependencies: what is left to do is the rest of the five
Attempted ==
    SubSeq(apps_to_install, 1, Len(apps_to_install) - Len(todo))

C35_FixedOrder ==
    (caller = "install_all_dependencies" /\ pc \in {"next_install", "install_step", "check_after"}) =>
        /\ Attempted \o todo = apps_to_install
        /\ Attempted # <<>> => app_key = Attempted[Len(Attempted)]

C35_AllAttempted ==
    (pc = "install_all_returned" /\ returned = TRUE) =>
        /\ todo = <<>>
        /\ app_key = apps_to_install[Len(apps_to_install)]
        /\ euid = 0

C35_NothingWithoutRoot ==
    (caller = "install_all_dependencies" /\ euid # 0) =>
        /\ log = <<>>
        /\ installed_apps = <<>>
        /\ app_key = None
        /\ pc \in {"install_all", "install_all_returned"}
        /\ pc = "install_all_returned" => returned = FALSE

\* C35: install_app returns True for an application that is installed or has
\* no installation config, with no install command and installed_apps as it
\* was; install_all_dependencies calls install_app for xdotool, vscode,
\* chrome, slack, docker in this order whatever each call returns, and
\* without root privileges it executes no command.
C35_InstallIdempotentAndComplete ==
    /\ [][C35_AlreadyInstalledStep /\ C35_NextStep]_vars
    /\ [](C35_FixedOrder /\ C35_AllAttempted /\ C35_NothingWithoutRoot)

\* C35 witness: install_all_dependencies has returned; only slack was
\* installed by its commands, and docker, the last, was found installed
C35_Witness ==
    /\ pc = "install_all_returned"
    /\ returned = TRUE
    /\ installed_apps = <<"slack">>
    /\ app_key = "docker"
    /\ log = <<Ran("check", "docker", INSTALLATION_CONFIG["docker"].check_command, TRUE)>>

-----------------------------------------------------------------------------
(* main: from the start of the process to agent.run() *)

Unified == "unified_agent.py"
Modified == "modified_unified_agent.py"

\* DEFAULT_USER_CONFIG of modified_unified_agent.py
DEFAULT_USER_CONFIG ==
    Config(DefaultSchedule,
           <<"Visual Studio Code", "Google Chrome", "Slack", "Docker Desktop">>,
           NoCustom)

\* the module-level names main can resolve: unified_agent.py defines
\* USER_CONFIG, modified_unified_agent.py defines DEFAULT_USER_CONFIG only
Globals(file) ==
    IF file = Unified THEN {"USER_CONFIG"} ELSE {"DEFAULT_USER_CONFIG"}

\* sys.argv[1:] of a start without --install
StartArgs == {<<>>, <<"--daemon">>, <<"--verbose">>}

\* the process started at some instant: the module is loaded and main is called
InitMain ==
    /\ program \in {Unified, Modified}
    /\ argv \in StartArgs
    /\ config = IF program = Unified THEN USER_CONFIG ELSE DEFAULT_USER_CONFIG
    /\ now \in EvalTimes
    /\ pc = "main"
    /\ NoAgent
    /\ NoInstaller

\* sys.argv[1] when `len(sys.argv) > 1`
FirstArg == IF Len(argv) > 0 THEN argv[1] ELSE None

MainLogged ==
    <<Event("INFO", "Starting Unified Linux Activity Agent", None)>>
        \o (IF FirstArg = "--daemon"
            THEN <<Event("INFO", "Daemon mode activated", None)>>
            ELSE <<>>)

\* main without --install: the argument check, then
\* `agent = ActivityAgent(USER_CONFIG)`, which is outside the try statement:
\* a name the module does not define raises NameError and ends the process
Main ==
    /\ pc = "main"
    /\ FirstArg # "--install"
    /\ events' = MainLogged
    /\ IF "USER_CONFIG" \in Globals(program)
       THEN /\ session_duration' \in SessionDurations
            /\ pc' = "loop_top"
       ELSE /\ pc' = "startup_fault"
            /\ UNCHANGED session_duration
    /\ UNCHANGED <<invocation, installer, config, looked_up, last_state, now, current_app,
                   app_start_time, current_time, locals, executor, intr>>

\* the start of the process up to the first schedule evaluation of run
SpecStartup == InitMain /\ [][Main \/ Evaluate]_vars

\* C36: started without --install, main of modified_unified_agent.py does not
\* end in a fault raised before agent.run() and its handlers.
C36_StartupReachesRun ==
    program = Modified => pc # "startup_fault"

====
